---- MODULE Spec2Model ----
(***************************************************************************)
(* Model of the proximity analysis of companalysis.py:                     *)
(*   time_to_destinations   (src/companalysis.py:358-442)                  *)
(*   get_closest_locations  (src/companalysis.py:446-515)                  *)
(*   get_next_2am_unix_timestamp (src/companalysis.py:339-354)             *)
(* Rows (origins) and columns (destinations) are indexed from 0, as in the *)
(* source: a Python list of length n and a 2-d array are functions on      *)
(* 0 .. n-1.  The 1-d index arrays the assignment builds (i_arr, j_arr,    *)
(* same_loc, new_i_list, ...) are sequences whose elements are 0-based     *)
(* row and column indices.                                                 *)
(***************************************************************************)
EXTENDS Integers, Sequences, FiniteSets, TLC

\* ---------------------------------------------------------------- bounds
MaxCells == 4   \* largest travel-time matrix tried: n * m <= MaxCells

\* durations (seconds) a directions response can carry, and thresholds tried
Durations == {300, 500, 600, 900}
MaxTimes  == {600, 900}

\* the clock counts hours; hour 0 is a local midnight
HoursPerDay == 24
TwoAM == 2

\* the latest hour the clock reaches while a matrix is computed
MaxNow == 3

\* the latest hour at which get_next_2am_unix_timestamp is called alone, and
\* the latest hour at which the local clocks are changed
MaxHour == 47

\* the most result links a search page shows, and the largest
\* max_places_to_find tried
MaxUrls == 3
MaxPlaces == 2

\* the longest text tried inside a name or an address
MaxTextLen == 1

\* the most span elements a store page shows
MaxSpans == 6

\* the most span elements on the page of a store that a task of
\* product_scraper visits
MaxTaskSpans == 1

\* the largest max_stores tried, and the most h3 elements and store links
\* the page of the stores shows
MaxStores == 2
MaxStoreTags == 3

\* max_time when the caller passes none (line 450)
DefaultMaxTime == 600

\* np.inf (line 488) is modelled by a sentinel that no travel time equals
Inf == -1

\* closest_loc before line 493 binds it
Unbound == -1

\* Python's None, for the variables that hold strings
None == "None"

\* a variable that holds None or an object holds NoValue or Some(object)
NoValue == <<>>
Some(x) == <<x>>
ValueOf(v) == v[1]

VARIABLES
    pc,                     \* position of the call
    caller,                 \* the function the user called
    origin_addresses,       \* argument, a list indexed from 0
    origin_names,           \* argument
    destination_addresses,  \* argument
    destination_names,      \* argument
    max_time,               \* argument (0 until a call passes it)
    times_df_arg,           \* argument times_df: None or a DataFrame
    apikey,                 \* argument: TRUE iff a non-empty key was passed
    times_arr,              \* time_to_destinations: times_arr
    i, j,                   \* time_to_destinations: loop position
    requests,               \* directions requests issued so far, in order
    responses,              \* the responses to them, in order
    now,                    \* the clock: hours since the epoch
    tz,                     \* the local time zone of the process
    departure_time,         \* time_to_destinations: departure_time (line 416)
    times_df,               \* get_closest_locations: times_df after line 474
    new_i_list,             \* line 480 / 495
    new_j_list,             \* line 481 / 496
    comb_arr,               \* line 502
    closest_locations,      \* line 504 / 513
    result,                 \* the value returned, None before the return
    error,                  \* the exception that ended the call, None if none
    max_places_to_find,     \* extract_search_results: argument
    url_update_count,       \* extract_search_results: argument
    all_addresses,          \* maps_scraper line 258, passed to every search
    all_place_names,        \* maps_scraper line 259, passed to every search
    search_query,           \* extract_search_results: argument
    location,               \* extract_search_results: argument
    place_urls,             \* line 186: the result links, numbered
    page,                   \* what the browser shows after its last get
    temp_place_info,        \* line 196: what extract_place_info returned
    place_info_list,        \* line 188 / 207
    update_count,           \* line 189 / 220
    iters,                  \* line 190
    benchmark,              \* line 191 / 221, times url_update_count
    place_i,                \* line 194: the loop index i
    search_queries,         \* maps_scraper: argument
    locations,              \* maps_scraper: argument
    query_i,                \* line 270: position of the outer loop
    location_i,             \* line 273: position of the inner loop
    browsers,               \* the browser sessions started so far
    browser,                \* line 275: the run's browser, Unbound before
    final_places_list,      \* line 257 / 302
    printed,                \* the errors printed at lines 305-306 and 314
    places_df,              \* line 319: the table returned
    source_file,            \* the file whose product scraper runs
    store_name,             \* extract_product_info: argument
    li_elements,            \* line 584: how many li elements were found
    li_i,                   \* line 590: position of the loop over them
    category,               \* line 595 (nels_companalysis.py line 114)
    span_elements,          \* line 598: the texts of the span elements
    span_i,                 \* line 602: position of enumerate
    span_index,             \* line 602 / 625: the loop variable index
    product_names,          \* line 587 / 629
    product_prices,         \* line 588 / 630
    product_info_list,      \* line 586 / 652 / 654
    max_stores,             \* product_scraper: argument, line 811
    debug_mode,             \* product_scraper: argument
    stores_list,            \* line 808: the texts of the h3 elements
    store_urls_list,        \* line 820: the hrefs of the store cards
    store_names,            \* line 804 / 817
    store_urls,             \* line 821 / 826
    tasks,                  \* line 854
    results,                \* line 858: what each task produced so far
    all_stores_df           \* line 865: the table returned

vars == <<pc, caller, origin_addresses, origin_names, destination_addresses,
          destination_names, max_time, times_df_arg, apikey, times_arr, i, j,
          requests, responses, now, tz, departure_time, times_df, new_i_list, new_j_list, comb_arr,
          closest_locations, result, error, max_places_to_find,
          url_update_count, all_addresses, all_place_names, search_query,
          location, place_urls, page, temp_place_info,
          place_info_list, update_count, iters, benchmark, place_i,
          search_queries, locations, query_i, location_i, browsers, browser,
          final_places_list, printed, places_df, source_file, store_name,
          li_elements, li_i, category, span_elements, span_i, span_index,
          product_names, product_prices, product_info_list, max_stores,
          debug_mode, stores_list, store_urls_list, store_names, store_urls,
          tasks, results, all_stores_df>>

\* ------------------------------------------------------------ data model
Rows(n) == 0 .. (n - 1)

\* a Python str is the sequence of its pieces of text; "\n" is a piece of
\* its own and no other piece contains a line break
\* the lists a caller passes: element x of each list is a distinct str
OriginAddresses(n)      == [x \in Rows(n) |-> <<"origin address ", ToString(x)>>]
OriginNames(n)          == [x \in Rows(n) |-> <<"origin name ", ToString(x)>>]
DestinationAddresses(m) == [x \in Rows(m) |-> <<"destination address ", ToString(x)>>]
DestinationNames(m)     == [x \in Rows(m) |-> <<"destination name ", ToString(x)>>]

\* len(list)
PyLen(list) == Cardinality(DOMAIN list)

\* np.zeros((n, m), dtype=float)
Zeros(n, m) == [r \in Rows(n) |-> [c \in Rows(m) |-> 0]]

\* pd.DataFrame(data=values, columns=columns, index=index); shape is
\* values.shape, kept because an array without rows still has m columns
DataFrame(values, n, m, columns, index) ==
    [values |-> values, shape |-> <<n, m>>, columns |-> columns, index |-> index]

\* the shapes tried
Shapes == {s \in (0 .. MaxCells) \X (0 .. MaxCells) : s[1] * s[2] <= MaxCells}

\* the pieces of text tried inside names and addresses, and the texts
Pieces == {"a", "\n"}
Texts == UNION {[1 .. k -> Pieces] : k \in 0 .. MaxTextLen}

\* a list of n strs, each the text t followed by its index
TextList(t, n) == [x \in Rows(n) |-> t \o <<ToString(x)>>]

\* the shapes tried with such lists
TextShapes == {<<1, 1>>, <<2, 1>>}

\* precomputed matrices a caller may pass as times_df
GivenFrames(n, m) ==
    {DataFrame([r \in Rows(n) |-> [c \in Rows(m) |-> d]], n, m,
               DestinationNames(m), OriginNames(n)) : d \in Durations}

\* ------------------------------------------- get_closest_locations, pure
\* line 476: is_within_time = times_df.values < max_time
IsWithinTimeAtMost(values, n, m, mt) ==
    [r \in Rows(n) |-> [c \in Rows(m) |-> values[r][c] <= mt]]

IsWithinTimeAbove(values, n, m, mt) ==
    [r \in Rows(n) |-> [c \in Rows(m) |-> values[r][c] > mt]]

IsWithinTimePositive(values, n, m, mt) ==
    [r \in Rows(n) |-> [c \in Rows(m) |-> 0 < values[r][c] /\ values[r][c] < mt]]

IsWithinTime(values, n, m, mt) ==
    [r \in Rows(n) |-> [c \in Rows(m) |-> values[r][c] < mt]]

\* line 478: np.nonzero(mask) lists the cells that are True in row-major
\* order; cell number c of an n x m array is (c div m, c mod m)
RECURSIVE NonzeroFrom(_, _, _, _)
NonzeroFrom(mask, n, m, c) ==
    IF c >= n * m THEN <<>>
    ELSE (IF mask[c \div m][c % m] THEN << <<c \div m, c % m>> >> ELSE <<>>)
         \o NonzeroFrom(mask, n, m, c + 1)

NonzeroAll(mask, n, m) ==
    LET cells == [c \in 1 .. (n * m) |-> <<(c - 1) \div m, (c - 1) % m>>]
    IN  [i_arr |-> [p \in DOMAIN cells |-> cells[p][1]],
         j_arr |-> [p \in DOMAIN cells |-> cells[p][2]]]

Nonzero(mask, n, m) ==
    LET cells == NonzeroFrom(mask, n, m, 0)
    IN  [i_arr |-> [p \in DOMAIN cells |-> cells[p][1]],
         j_arr |-> [p \in DOMAIN cells |-> cells[p][2]]]

\* line 486: same_loc = i_arr[j_arr == k]
RECURSIVE BoolIndex(_, _, _)
BoolIndex(arr, flags, p) ==
    IF p > Len(arr) THEN <<>>
    ELSE (IF flags[p] THEN <<arr[p]>> ELSE <<>>) \o BoolIndex(arr, flags, p + 1)

SameLoc(i_arr, j_arr, k) ==
    BoolIndex(i_arr, [p \in DOMAIN j_arr |-> j_arr[p] = k], 1)

\* lines 488-493: the scan of one column; closest_dist starts at np.inf, and
\* closest_loc keeps the value it had when no row updates it
RECURSIVE ScanSameLocKeepDist(_, _, _, _, _, _)
ScanSameLocKeepDist(values, same_loc, k, p, closest_dist, closest_loc) ==
    IF p > Len(same_loc) THEN closest_loc
    ELSE LET loc == same_loc[p]
         IN  IF closest_dist = Inf \/ values[loc][k] < closest_dist
             THEN ScanSameLocKeepDist(values, same_loc, k, p + 1, closest_dist, loc)
             ELSE ScanSameLocKeepDist(values, same_loc, k, p + 1, closest_dist,
                                      closest_loc)

RECURSIVE ScanSameLocLastMin(_, _, _, _, _, _)
ScanSameLocLastMin(values, same_loc, k, p, closest_dist, closest_loc) ==
    IF p > Len(same_loc) THEN closest_loc
    ELSE LET loc == same_loc[p]
         IN  IF closest_dist = Inf \/ values[loc][k] <= closest_dist
             THEN ScanSameLocLastMin(values, same_loc, k, p + 1, values[loc][k], loc)
             ELSE ScanSameLocLastMin(values, same_loc, k, p + 1, closest_dist,
                                     closest_loc)

RECURSIVE ScanSameLocPosition(_, _, _, _, _, _)
ScanSameLocPosition(values, same_loc, k, p, closest_dist, closest_loc) ==
    IF p > Len(same_loc) THEN closest_loc
    ELSE LET loc == same_loc[p]
         IN  IF closest_dist = Inf \/ values[loc][k] < closest_dist
             THEN ScanSameLocPosition(values, same_loc, k, p + 1, values[loc][k],
                                      p - 1)
             ELSE ScanSameLocPosition(values, same_loc, k, p + 1, closest_dist,
                                      closest_loc)

RECURSIVE ScanSameLoc(_, _, _, _, _, _)
ScanSameLoc(values, same_loc, k, p, closest_dist, closest_loc) ==
    IF p > Len(same_loc) THEN closest_loc
    ELSE LET loc == same_loc[p]
         IN  IF closest_dist = Inf \/ values[loc][k] < closest_dist
             THEN ScanSameLoc(values, same_loc, k, p + 1, values[loc][k], loc)
             ELSE ScanSameLoc(values, same_loc, k, p + 1, closest_dist, closest_loc)

\* lines 484-496: one pass of the loop body for every element k of j_arr,
\* from position p on; closest_loc is carried from one pass to the next
RECURSIVE ForKInJArr(_, _, _, _, _, _, _)
ForKInJArr(values, i_arr, j_arr, p, closest_loc, i_list, j_list) ==
    IF p > Len(j_arr) THEN [new_i_list |-> i_list, new_j_list |-> j_list]
    ELSE LET k    == j_arr[p]
             same == SameLoc(i_arr, j_arr, k)
             loc  == ScanSameLoc(values, same, k, 1, Inf, closest_loc)
         IN  ForKInJArr(values, i_arr, j_arr, p + 1, loc,
                        Append(i_list, loc), Append(j_list, k))

\* line 498: np.argsort(a) returns a permutation of the positions of a that
\* puts a in ascending order.  The default kind is "quicksort", which numpy
\* documents as not stable, so every such permutation is a possible value.
ArgsortUnsorted(a) == {[p \in DOMAIN a |-> p]}

RECURSIVE ArgsortOf(_, _)
ArgsortOf(a, S) ==
    IF S = {} THEN {<<>>}
    ELSE UNION {{<<p>> \o rest : rest \in ArgsortOf(a, S \ {p})} :
                p \in {q \in S : \A r \in S : a[q] <= a[r]}}

Argsort(a) == ArgsortOf(a, DOMAIN a)

\* the value of np.argsort(a) on a build whose sort of a short array is an
\* insertion sort: equal elements keep their order
RECURSIVE StableArgsortOf(_, _)
StableArgsortOf(a, S) ==
    IF S = {} THEN <<>>
    ELSE LET p == CHOOSE q \in S :
                      \A r \in S : a[q] < a[r] \/ (a[q] = a[r] /\ q <= r)
         IN  <<p>> \o StableArgsortOf(a, S \ {p})

StableArgsort(a) == StableArgsortOf(a, DOMAIN a)

\* lines 499-502: np.array(list)[sort_mask], zipped into tuples
CombArr(i_list, j_list, sort_mask) ==
    [p \in DOMAIN sort_mask |-> <<i_list[sort_mask[p]], j_list[sort_mask[p]]>>]

\* lines 508-511: the f-string of the pair (r, c)
OutputStringAddressFirst(o_names, o_addresses, d_names, d_addresses, r, c) ==
    <<"Origin Name: ">> \o o_addresses[r] \o <<"\n">>
    \o <<"Origin Address: ">> \o o_names[r] \o <<"\n">>
    \o <<"Destination Name: ">> \o d_names[c] \o <<"\n">>
    \o <<"Destination Address: ">> \o d_addresses[c] \o <<"\n">>

OutputString(o_names, o_addresses, d_names, d_addresses, r, c) ==
    <<"Origin Name: ">> \o o_names[r] \o <<"\n">>
    \o <<"Origin Address: ">> \o o_addresses[r] \o <<"\n">>
    \o <<"Destination Name: ">> \o d_names[c] \o <<"\n">>
    \o <<"Destination Address: ">> \o d_addresses[c] \o <<"\n">>

\* ------------------------------------------------------ maps scraper, pure
\* what the page behind a result link shows: a place with a name and an
\* address, a temporarily closed place, a header of an unknown layout, or
\* nothing before the wait of line 71 times out
PlaceAddresses == {"address 1", "address 2"}
PlaceNames == {"name 1", "name 2"}
Pages ==
    {[header |-> "place", place_name |-> nm, address |-> a] :
        nm \in PlaceNames, a \in PlaceAddresses}
    \cup {[header |-> h, place_name |-> None, address |-> None] :
            h \in {"closed", "malformed", "timeout"}}

\* the browser before any page, and on the page of the search results
BlankPage == [header |-> "blank", place_name |-> None, address |-> None]
SearchPage == [header |-> "search", place_name |-> None, address |-> None]

\* the result links a search page shows (line 186), numbered from 1
PlaceUrls(k) == [p \in 1 .. k |-> p]

\* values of url_update_count tried
UpdateCounts == {0, 1, 3}

\* the search queries and locations of a run, and how many of each are tried
SearchQueries(n) == SubSeq(<<"query 1", "query 2">>, 1, n)
Locations(n) == SubSeq(<<"location 1", "location 2">>, 1, n)
SearchShapes ==
    {<<0, 0>>, <<0, 1>>, <<1, 0>>, <<1, 1>>, <<2, 1>>, <<1, 2>>}

\* lines 319-322: the columns of the table
ResultColumns ==
    <<"Search Query", "Location", "Name", "Description", "Stars (out of 5)",
      "Number of Reviews", "Address", "Phone", "Emails", "Website",
      "Price Range">>

\* temp_place_info before the first place of a search
NoPlaceInfo == [outcome |-> "unset", place_info |-> NoValue]

\* x in a python list
InList(x, list) == \E p \in DOMAIN list : list[p] = x

\* lines 67-157: what extract_place_info does for one page, and the two
\* lists after it
ExtractPlaceInfo(shown, loc, query, addresses, names) ==
    LET place_info == Some([search_query |-> query, location |-> loc,
                            place_name |-> shown.place_name,
                            address |-> shown.address])
    IN  IF shown.header = "timeout"
        THEN [outcome |-> "raise", place_info |-> NoValue,
              all_addresses |-> addresses, all_place_names |-> names]
        ELSE IF shown.header \in {"closed", "malformed"}
        THEN [outcome |-> "skip", place_info |-> NoValue,
              all_addresses |-> addresses, all_place_names |-> names]
        ELSE IF InList(shown.address, addresses)
        THEN IF InList(shown.place_name, names)
             THEN [outcome |-> "skip", place_info |-> NoValue,
                   all_addresses |-> addresses, all_place_names |-> names]
             ELSE [outcome |-> "return", place_info |-> place_info,
                   all_addresses |-> addresses, all_place_names |-> names]
        ELSE [outcome |-> "return", place_info |-> place_info,
              all_addresses |-> Append(addresses, shown.address),
              all_place_names |-> Append(names, shown.place_name)]

\* ---------------------------------------------- get_next_2am_unix_timestamp
\* a local time zone: local time is UTC plus `before` hours until the hour
\* `at`, and UTC plus `after` hours from then on.  The zones tried keep one
\* offset, or put the clocks forward or back by one hour at some hour.
NoChange == [before |-> 0, after |-> 0, at |-> 0]
Zones ==
    {NoChange}
    \cup {[before |-> 0, after |-> 1, at |-> h] : h \in 0 .. MaxHour}
    \cup {[before |-> 1, after |-> 0, at |-> h] : h \in 0 .. MaxHour}

\* line 347: the naive local time datetime.now() shows at the hour t, in
\* hours since the local midnight of the epoch
LocalTime(t, zone) == t + (IF t < zone.at THEN zone.before ELSE zone.after)

\* line 354: time.mktime of a naive local time.  A local time the zone
\* shows twice stands for either of its two hours and a local time the zone
\* skips is read with either offset: the C library decides which.
Mktime(local, zone) ==
    LET read == {local - zone.before, local - zone.after}
        shown == {t \in read : LocalTime(t, zone) = local}
    IN  IF shown = {} THEN read ELSE shown

\* lines 347-354: the hours the function may return when called at hour t
GetNext2amUnixTimestamp(t) ==
    LET local_now == LocalTime(t, tz)
        next_2am == (local_now \div HoursPerDay) * HoursPerDay + TwoAM
    IN  Mktime(IF local_now >= next_2am THEN next_2am + HoursPerDay
               ELSE next_2am, tz)

\* lines 419-424: the parameters of the request for the pair (r, c)
Params(r, c) ==
    [origin |-> origin_addresses[r], destination |-> destination_addresses[c],
     departure_time |-> departure_time, key |-> apikey]

\* the responses of the directions service
ResponseOK(d)   == [status_code |-> 200, status |-> "OK", duration |-> d]
ResponseNoRoute == [status_code |-> 200, status |-> "ZERO_RESULTS", duration |-> 0]
ResponseFailed  == [status_code |-> 500, status |-> "", duration |-> 0]

\* ------------------------------------------------------------------ Init
\* the state before any call, at hour t in the time zone zone
InitClock(t, zone) ==
    /\ pc = "idle"
    /\ caller = None
    /\ origin_addresses = <<>>
    /\ origin_names = <<>>
    /\ destination_addresses = <<>>
    /\ destination_names = <<>>
    /\ max_time = 0
    /\ times_df_arg = NoValue
    /\ apikey = FALSE
    /\ times_arr = <<>>
    /\ i = 0
    /\ j = 0
    /\ requests = <<>>
    /\ responses = <<>>
    /\ now = t
    /\ tz = zone
    /\ departure_time = 0
    /\ times_df = NoValue
    /\ new_i_list = <<>>
    /\ new_j_list = <<>>
    /\ comb_arr = <<>>
    /\ closest_locations = <<>>
    /\ result = NoValue
    /\ error = None
    /\ max_places_to_find = 0
    /\ url_update_count = 0
    /\ all_addresses = <<>>
    /\ all_place_names = <<>>
    /\ search_query = None
    /\ location = None
    /\ place_urls = <<>>
    /\ page = BlankPage
    /\ temp_place_info = NoPlaceInfo
    /\ place_info_list = <<>>
    /\ update_count = 0
    /\ iters = 0
    /\ benchmark = 0
    /\ place_i = 0
    /\ search_queries = <<>>
    /\ locations = <<>>
    /\ query_i = 0
    /\ location_i = 0
    /\ browsers = <<>>
    /\ browser = Unbound
    /\ final_places_list = <<>>
    /\ printed = <<>>
    /\ places_df = NoValue
    /\ source_file = None
    /\ store_name = None
    /\ li_elements = 0
    /\ li_i = 0
    /\ category = None
    /\ span_elements = <<>>
    /\ span_i = 0
    /\ span_index = 0
    /\ product_names = <<>>
    /\ product_prices = <<>>
    /\ product_info_list = <<>>
    /\ max_stores = 0
    /\ debug_mode = FALSE
    /\ stores_list = <<>>
    /\ store_urls_list = <<>>
    /\ store_names = <<>>
    /\ store_urls = <<>>
    /\ tasks = <<>>
    /\ results = <<>>
    /\ all_stores_df = NoValue

Init == InitClock(0, NoChange)

\* no search of the maps service is running
SearchUnchanged ==
    UNCHANGED <<max_places_to_find, url_update_count, all_addresses,
                all_place_names, search_query, location, place_urls, page,
                temp_place_info, place_info_list, update_count, iters,
                benchmark, place_i>>

\* maps_scraper keeps its own variables
MapsUnchanged ==
    UNCHANGED <<search_queries, locations, query_i, location_i, browsers,
                browser, final_places_list, printed, places_df>>

\* extract_product_info keeps its own variables
ExtractUnchanged ==
    UNCHANGED <<store_name, li_elements, li_i, category, span_elements,
                span_i, span_index, product_names, product_prices,
                product_info_list>>

\* product_scraper keeps its own variables
ScraperUnchanged ==
    UNCHANGED <<max_stores, debug_mode, stores_list, store_urls_list,
                store_names, store_urls, tasks, results, all_stores_df>>

\* no product scraper is running
ProductUnchanged ==
    /\ UNCHANGED source_file
    /\ ExtractUnchanged
    /\ ScraperUnchanged

\* locals of both functions keep their values
LocalsUnchanged ==
    /\ UNCHANGED <<times_arr, i, j, requests, responses, now, tz, departure_time, times_df, new_i_list, new_j_list,
                   comb_arr, closest_locations, result, error>>
    /\ SearchUnchanged
    /\ MapsUnchanged
    /\ ProductUnchanged

ArgsUnchanged ==
    /\ UNCHANGED <<caller, origin_addresses, origin_names, destination_addresses,
                   destination_names, max_time, times_df_arg, apikey, tz>>
    /\ SearchUnchanged
    /\ MapsUnchanged
    /\ ProductUnchanged

\* the proximity functions are not running
ProximityUnchanged ==
    UNCHANGED <<caller, origin_addresses, origin_names, destination_addresses,
                destination_names, max_time, times_df_arg, apikey, times_arr,
                i, j, requests, responses, now, tz, departure_time, times_df,
                new_i_list, new_j_list, comb_arr, closest_locations, result>>

\* ----------------------------------------------------------- the callers
\* a call get_closest_locations(origin_addresses, origin_names,
\* destination_addresses, destination_names, max_time, times_df, apikey)
CallGetClosestLocations ==
    /\ pc = "idle"
    /\ \E shape \in Shapes, on \in 0 .. MaxCells, dn \in 0 .. MaxCells,
          mt \in MaxTimes, key \in BOOLEAN :
         \E df \in {NoValue} \cup {Some(g) : g \in GivenFrames(shape[1], shape[2])} :
            /\ caller' = "get_closest_locations"
            /\ origin_addresses' = OriginAddresses(shape[1])
            /\ origin_names' = OriginNames(on)
            /\ destination_addresses' = DestinationAddresses(shape[2])
            /\ destination_names' = DestinationNames(dn)
            /\ max_time' = mt
            /\ times_df_arg' = df
            /\ apikey' = key
    /\ pc' = "gcl_check"
    /\ LocalsUnchanged

\* a call time_to_destinations(origin_addresses, origin_names,
\* destination_addresses, destination_names, apikey)
CallTimeToDestinations ==
    /\ pc = "idle"
    /\ \E shape \in Shapes, on \in 0 .. MaxCells, dn \in 0 .. MaxCells,
          key \in BOOLEAN :
            /\ caller' = "time_to_destinations"
            /\ origin_addresses' = OriginAddresses(shape[1])
            /\ origin_names' = OriginNames(on)
            /\ destination_addresses' = DestinationAddresses(shape[2])
            /\ destination_names' = DestinationNames(dn)
            /\ apikey' = key
    /\ pc' = "ttd_check"
    /\ UNCHANGED <<max_time, times_df_arg>>
    /\ LocalsUnchanged

\* ------------------------------------------------- get_closest_locations
CheckArgumentsUnguarded ==
    /\ pc = "gcl_check"
    /\ IF times_df_arg # NoValue
       THEN /\ pc' = "error"
            /\ error' = "ValueError: truth value of a DataFrame is ambiguous"
       ELSE /\ pc' = "ttd_check"
            /\ error' = error
    /\ UNCHANGED <<times_arr, i, j, requests, responses, now, departure_time,
                   times_df, new_i_list, new_j_list, comb_arr,
                   closest_locations, result>>
    /\ ArgsUnchanged

\* lines 470-474.  "not times_df" asks a DataFrame for its truth value, which
\* pandas refuses with a ValueError; None is falsy.
CheckArguments ==
    /\ pc = "gcl_check"
    /\ IF times_df_arg # NoValue
       THEN /\ pc' = "error"
            /\ error' = "ValueError: truth value of a DataFrame is ambiguous"
       ELSE IF ~apikey
       THEN /\ pc' = "error"
            /\ error' = "ValueError: API key required"
       ELSE /\ pc' = "ttd_check"
            /\ error' = error
    /\ UNCHANGED <<times_arr, i, j, requests, responses, now, departure_time,
                   times_df, new_i_list, new_j_list, comb_arr,
                   closest_locations, result>>
    /\ ArgsUnchanged

\* ---------------------------------------------------- time_to_destinations
\* lines 375-408: the arguments are lists, so the type checks pass; then the
\* first pass of the loop of line 411 reads the clock (line 416)
ValidateInputsBothMismatch ==
    /\ pc = "ttd_check"
    /\ LET n == PyLen(origin_addresses)
           m == PyLen(destination_addresses)
       IN  /\ times_arr' = Zeros(n, m)
           /\ IF PyLen(origin_names) # n /\ PyLen(destination_names) # m
              THEN /\ pc' = "error"
                   /\ error' = "ValueError: names must match addresses"
              ELSE IF ~apikey
              THEN /\ pc' = "error"
                   /\ error' = "ValueError: API key required"
              ELSE /\ pc' = IF n = 0 \/ m = 0 THEN "ttd_build" ELSE "ttd_loop"
                   /\ error' = error
           /\ departure_time' \in GetNext2amUnixTimestamp(now)
    /\ i' = 0
    /\ j' = 0
    /\ UNCHANGED <<requests, responses, now, times_df, new_i_list, new_j_list,
                   comb_arr, closest_locations, result>>
    /\ ArgsUnchanged

ValidateInputs ==
    /\ pc = "ttd_check"
    /\ LET n == PyLen(origin_addresses)
           m == PyLen(destination_addresses)
       IN  /\ times_arr' = Zeros(n, m)
           /\ IF PyLen(origin_names) # n \/ PyLen(destination_names) # m
              THEN /\ pc' = "error"
                   /\ error' = "ValueError: names must match addresses"
              ELSE IF ~apikey
              THEN /\ pc' = "error"
                   /\ error' = "ValueError: API key required"
              ELSE /\ pc' = IF n = 0 \/ m = 0 THEN "ttd_build" ELSE "ttd_loop"
                   /\ error' = error
           /\ departure_time' \in
                 IF PyLen(origin_names) = n /\ PyLen(destination_names) = m
                    /\ apikey /\ n > 0
                 THEN GetNext2amUnixTimestamp(now) ELSE {departure_time}
    /\ i' = 0
    /\ j' = 0
    /\ UNCHANGED <<requests, responses, now, times_df, new_i_list, new_j_list,
                   comb_arr, closest_locations, result>>
    /\ ArgsUnchanged

\* the loops of lines 411 and 418 move to the next pair, or end; a new pass
\* of the outer loop reads the clock again (line 416)
NextPair ==
    LET n == PyLen(origin_addresses)
        m == PyLen(destination_addresses)
    IN  IF j + 1 < m
        THEN /\ i' = i /\ j' = j + 1 /\ pc' = "ttd_loop"
             /\ departure_time' = departure_time
        ELSE IF i + 1 < n
        THEN /\ i' = i + 1 /\ j' = 0 /\ pc' = "ttd_loop"
             /\ departure_time' \in GetNext2amUnixTimestamp(now)
        ELSE /\ i' = i + 1 /\ j' = j /\ pc' = "ttd_build"
             /\ departure_time' = departure_time

\* lines 426-433: status code 200 and status "OK"
RequestOKFirstRow ==
    /\ pc = "ttd_loop"
    /\ requests' = Append(requests, Params(i, j))
    /\ \E duration_seconds \in Durations :
          /\ responses' = Append(responses, ResponseOK(duration_seconds))
          /\ times_arr' = [times_arr EXCEPT ![0][j] = duration_seconds]
    /\ NextPair
    /\ UNCHANGED <<now, times_df, new_i_list, new_j_list, comb_arr,
                   closest_locations, result, error>>
    /\ ArgsUnchanged

RequestOK ==
    /\ pc = "ttd_loop"
    /\ requests' = Append(requests, Params(i, j))
    /\ \E duration_seconds \in Durations :
          /\ responses' = Append(responses, ResponseOK(duration_seconds))
          /\ times_arr' = [times_arr EXCEPT ![i][j] = duration_seconds]
    /\ NextPair
    /\ UNCHANGED <<now, times_df, new_i_list, new_j_list, comb_arr,
                   closest_locations, result, error>>
    /\ ArgsUnchanged

\* lines 426-431, 435-436: status code 200 and a status other than "OK"
RequestNoRouteFatal ==
    /\ pc = "ttd_loop"
    /\ requests' = Append(requests, Params(i, j))
    /\ responses' = Append(responses, ResponseNoRoute)
    /\ pc' = "error"
    /\ error' = "Exception: no valid route"
    /\ UNCHANGED <<now, departure_time, times_arr, i, j, times_df, new_i_list,
                   new_j_list, comb_arr, closest_locations, result>>
    /\ ArgsUnchanged

RequestNoRoute ==
    /\ pc = "ttd_loop"
    /\ requests' = Append(requests, Params(i, j))
    /\ responses' = Append(responses, ResponseNoRoute)
    /\ NextPair
    /\ UNCHANGED <<now, times_arr, times_df, new_i_list, new_j_list, comb_arr,
                   closest_locations, result, error>>
    /\ ArgsUnchanged

\* lines 426-427, 437-438: a status code other than 200
RequestFailedContinues ==
    /\ pc = "ttd_loop"
    /\ requests' = Append(requests, Params(i, j))
    /\ responses' = Append(responses, ResponseFailed)
    /\ NextPair
    /\ UNCHANGED <<now, times_arr, times_df, new_i_list, new_j_list, comb_arr,
                   closest_locations, result, error>>
    /\ ArgsUnchanged

RequestFailed ==
    /\ pc = "ttd_loop"
    /\ requests' = Append(requests, Params(i, j))
    /\ responses' = Append(responses, ResponseFailed)
    /\ pc' = "error"
    /\ error' = "Exception: Google Maps API error"
    /\ UNCHANGED <<now, departure_time, times_arr, i, j, times_df, new_i_list, new_j_list, comb_arr,
                   closest_locations, result>>
    /\ ArgsUnchanged

\* lines 440-442, and the assignment of line 474 when get_closest_locations
\* made the call
ReturnTimes ==
    /\ pc = "ttd_build"
    /\ LET df_times == DataFrame(times_arr, PyLen(origin_addresses),
                                 PyLen(destination_addresses),
                                 destination_names, origin_names)
       IN  IF caller = "time_to_destinations"
           THEN /\ result' = Some(df_times)
                /\ times_df' = times_df
                /\ pc' = "done"
           ELSE /\ times_df' = Some(df_times)
                /\ result' = result
                /\ pc' = "assign"
    /\ UNCHANGED <<times_arr, i, j, requests, responses, now, departure_time,
                   new_i_list, new_j_list, comb_arr, closest_locations, error>>
    /\ ArgsUnchanged

\* ------------------------------------------------- get_closest_locations
\* lines 476-502; reading closest_loc at line 495 before line 493 has bound
\* it is an UnboundLocalError
AssignMasking ==
    /\ pc = "assign"
    /\ LET df   == ValueOf(times_df)
           n    == df.shape[1]
           m    == df.shape[2]
           mask == IsWithinTime(df.values, n, m, max_time)
           nz   == Nonzero(mask, n, m)
           new  == ForKInJArr(df.values, nz.i_arr, nz.j_arr, 1, Unbound, <<>>, <<>>)
       IN  IF \E p \in DOMAIN new.new_i_list : new.new_i_list[p] = Unbound
           THEN /\ pc' = "error"
                /\ error' = "UnboundLocalError: closest_loc"
                /\ UNCHANGED <<times_df, new_i_list, new_j_list, comb_arr>>
           ELSE /\ new_i_list' = new.new_i_list
                /\ new_j_list' = new.new_j_list
                /\ \E sort_mask \in Argsort(new.new_i_list) :
                      comb_arr' = CombArr(new.new_i_list, new.new_j_list, sort_mask)
                /\ times_df' = Some([df EXCEPT !.values =
                      [r \in Rows(n) |-> [c \in Rows(m) |->
                          IF mask[r][c] THEN df.values[r][c] ELSE 0]]])
                /\ pc' = "format"
                /\ error' = error
    /\ UNCHANGED <<times_arr, i, j, requests, responses, now, departure_time,
                   closest_locations, result>>
    /\ ArgsUnchanged

Assign ==
    /\ pc = "assign"
    /\ LET df   == ValueOf(times_df)
           n    == df.shape[1]
           m    == df.shape[2]
           mask == IsWithinTime(df.values, n, m, max_time)
           nz   == Nonzero(mask, n, m)
           new  == ForKInJArr(df.values, nz.i_arr, nz.j_arr, 1, Unbound, <<>>, <<>>)
       IN  IF \E p \in DOMAIN new.new_i_list : new.new_i_list[p] = Unbound
           THEN /\ pc' = "error"
                /\ error' = "UnboundLocalError: closest_loc"
                /\ UNCHANGED <<new_i_list, new_j_list, comb_arr>>
           ELSE /\ new_i_list' = new.new_i_list
                /\ new_j_list' = new.new_j_list
                /\ \E sort_mask \in Argsort(new.new_i_list) :
                      comb_arr' = CombArr(new.new_i_list, new.new_j_list, sort_mask)
                /\ pc' = "format"
                /\ error' = error
    /\ UNCHANGED <<times_arr, i, j, requests, responses, now, departure_time,
                   times_df, closest_locations, result>>
    /\ ArgsUnchanged

\* lines 504-515; an index beyond the end of a list is an IndexError
Format ==
    /\ pc = "format"
    /\ IF \E p \in DOMAIN comb_arr :
             \/ comb_arr[p][1] \notin DOMAIN origin_names
             \/ comb_arr[p][1] \notin DOMAIN origin_addresses
             \/ comb_arr[p][2] \notin DOMAIN destination_names
             \/ comb_arr[p][2] \notin DOMAIN destination_addresses
       THEN /\ pc' = "error"
            /\ error' = "IndexError: list index out of range"
            /\ UNCHANGED <<closest_locations, result>>
       ELSE /\ closest_locations' =
                  [p \in DOMAIN comb_arr |->
                      OutputString(origin_names, origin_addresses,
                                   destination_names, destination_addresses,
                                   comb_arr[p][1], comb_arr[p][2])]
            /\ result' = Some(<<ValueOf(times_df), closest_locations'>>)
            /\ pc' = "done"
            /\ error' = error
    /\ UNCHANGED <<times_arr, i, j, requests, responses, now, departure_time,
                   times_df, new_i_list, new_j_list, comb_arr>>
    /\ ArgsUnchanged

Next ==
    \/ CallGetClosestLocations
    \/ CallTimeToDestinations
    \/ CheckArguments
    \/ ValidateInputs
    \/ RequestOK
    \/ RequestNoRoute
    \/ RequestFailed
    \/ ReturnTimes
    \/ Assign
    \/ Format

Spec == Init /\ [][Next]_vars

\* the same program on a build whose argsort is stable
AssignStable ==
    /\ Assign
    /\ comb_arr' = CombArr(new_i_list', new_j_list', StableArgsort(new_i_list'))

NextStable ==
    \/ CallGetClosestLocations
    \/ CallTimeToDestinations
    \/ CheckArguments
    \/ ValidateInputs
    \/ RequestOK
    \/ RequestNoRoute
    \/ RequestFailed
    \/ ReturnTimes
    \/ AssignStable
    \/ Format

SpecStable == Init /\ [][NextStable]_vars

\* the same program called with names and addresses of arbitrary text, a key,
\* no matrix and the default max_time
CallWithText ==
    /\ pc = "idle"
    /\ \E shape \in TextShapes, oa \in Texts, on \in Texts, da \in Texts,
          dn \in Texts :
            /\ origin_addresses' = TextList(oa, shape[1])
            /\ origin_names' = TextList(on, shape[1])
            /\ destination_addresses' = TextList(da, shape[2])
            /\ destination_names' = TextList(dn, shape[2])
    /\ caller' = "get_closest_locations"
    /\ max_time' = DefaultMaxTime
    /\ times_df_arg' = NoValue
    /\ apikey' = TRUE
    /\ pc' = "gcl_check"
    /\ LocalsUnchanged

NextText ==
    \/ CallWithText
    \/ CheckArguments
    \/ ValidateInputs
    \/ RequestOK
    \/ RequestNoRoute
    \/ RequestFailed
    \/ ReturnTimes
    \/ Assign
    \/ Format

SpecText == Init /\ [][NextText]_vars

\* --------------------------------------------------- extract_search_results
\* a call extract_search_results(browser, search_url, location, search_query,
\* max_places_to_find, ..., url_update_count) of a run whose two lists are
\* still empty
CallExtractSearchResults ==
    /\ pc = "idle"
    /\ \E mx \in 0 .. MaxPlaces, u \in UpdateCounts :
          /\ max_places_to_find' = mx
          /\ url_update_count' = u
    /\ search_query' = "query 1"
    /\ location' = "location 1"
    /\ pc' = "esr_load"
    /\ UNCHANGED <<all_addresses, all_place_names, place_urls, page,
                   temp_place_info, place_info_list, update_count, iters,
                   benchmark, place_i, error>>
    /\ MapsUnchanged
    /\ ProximityUnchanged
    /\ ProductUnchanged

\* lines 164-191: the search page loads and shows its result links; the
\* division of line 191 raises when url_update_count is 0
LoadSearchPage ==
    /\ pc = "esr_load"
    /\ page' = SearchPage
    /\ \E k \in 0 .. MaxUrls :
          /\ place_urls' = PlaceUrls(k)
          /\ place_info_list' = <<>>
          /\ update_count' = 0
          /\ iters' = IF k < max_places_to_find
                      THEN k - 1
                      ELSE max_places_to_find - 1
          /\ IF url_update_count = 0
             THEN /\ error' = "ZeroDivisionError"
                  /\ pc' = "esr_error"
                  /\ benchmark' = benchmark
             ELSE /\ error' = error
                  /\ pc' = "esr_loop"
                  /\ benchmark' = iters'
    /\ place_i' = 0
    /\ UNCHANGED <<max_places_to_find, url_update_count, all_addresses,
                   all_place_names, search_query, location, temp_place_info>>
    /\ MapsUnchanged
    /\ ProximityUnchanged
    /\ ProductUnchanged

\* lines 164-168: no result link appears before the wait times out
LoadSearchPageFails ==
    /\ pc = "esr_load"
    /\ page' = SearchPage
    /\ error' = "TimeoutException"
    /\ pc' = "esr_error"
    /\ UNCHANGED <<max_places_to_find, url_update_count, all_addresses,
                   all_place_names, search_query, location, place_urls,
                   temp_place_info, place_info_list, update_count, iters,
                   benchmark, place_i>>
    /\ MapsUnchanged
    /\ ProximityUnchanged
    /\ ProductUnchanged

\* lines 194-222: one pass of the loop over place_urls; the browser gets the
\* page behind the link (line 70) and extract_place_info reads it
ForUrl ==
    /\ pc = "esr_loop"
    /\ place_i < Len(place_urls)
    /\ \E shown \in Pages :
         LET temp == ExtractPlaceInfo(shown, location, search_query,
                                      all_addresses, all_place_names)
             found == IF temp.outcome = "return"
                      THEN Append(place_info_list, ValueOf(temp.place_info))
                      ELSE place_info_list
         IN  /\ page' = shown
             /\ temp_place_info' =
                   IF temp.outcome = "raise" THEN temp_place_info
                   ELSE [outcome |-> temp.outcome,
                         place_info |-> temp.place_info]
             /\ all_addresses' = temp.all_addresses
             /\ all_place_names' = temp.all_place_names
             /\ place_info_list' = found
             /\ IF temp.outcome = "skip"
                THEN /\ place_i' = place_i + 1
                     /\ pc' = "esr_loop"
                     /\ UNCHANGED <<update_count, benchmark>>
                ELSE IF Len(found) >= max_places_to_find
                THEN /\ pc' = "esr_return"
                     /\ UNCHANGED <<place_i, update_count, benchmark>>
                ELSE /\ place_i' = place_i + 1
                     /\ pc' = "esr_loop"
                     /\ IF place_i * url_update_count > benchmark
                        THEN /\ update_count' = update_count + 1
                             /\ benchmark' = benchmark + iters
                        ELSE UNCHANGED <<update_count, benchmark>>
    /\ UNCHANGED <<max_places_to_find, url_update_count, search_query,
                   location, place_urls, iters, error>>
    /\ MapsUnchanged
    /\ ProximityUnchanged
    /\ ProductUnchanged

\* lines 224-227: the loop has ended or was left by the break
ReturnPlaces ==
    /\ \/ pc = "esr_return"
       \/ pc = "esr_loop" /\ place_i >= Len(place_urls)
    /\ pc' = "esr_done"
    /\ UNCHANGED error
    /\ SearchUnchanged
    /\ MapsUnchanged
    /\ ProximityUnchanged
    /\ ProductUnchanged

NextSearch ==
    \/ CallExtractSearchResults
    \/ LoadSearchPage
    \/ LoadSearchPageFails
    \/ ForUrl
    \/ ReturnPlaces

SpecSearch == Init /\ [][NextSearch]_vars

\* -------------------------------------------------------------- maps_scraper
\* a call maps_scraper(search_queries, locations, max_places_to_find, ...,
\* url_update_count); lines 257-259 empty the three lists
CallMapsScraper ==
    /\ pc = "idle"
    /\ \E shape \in SearchShapes, mx \in 0 .. MaxPlaces, u \in UpdateCounts :
          /\ search_queries' = SearchQueries(shape[1])
          /\ locations' = Locations(shape[2])
          /\ max_places_to_find' = mx
          /\ url_update_count' = u
    /\ caller' = "maps_scraper"
    /\ final_places_list' = <<>>
    /\ all_addresses' = <<>>
    /\ all_place_names' = <<>>
    /\ query_i' = 0
    /\ location_i' = 0
    /\ pc' = "maps_loop"
    /\ UNCHANGED <<search_query, location, place_urls, page, temp_place_info,
                   place_info_list, update_count, iters, benchmark, place_i,
                   browsers, browser, printed, places_df, error>>
    /\ UNCHANGED <<origin_addresses, origin_names, destination_addresses,
                   destination_names, max_time, times_df_arg, apikey,
                   times_arr, i, j, requests, responses, now, tz,
                   departure_time, times_df, new_i_list, new_j_list,
                   comb_arr, closest_locations, result>>
    /\ ProductUnchanged

\* the loops of lines 270 and 273 have a (search query, location) left
MoreSearches ==
    query_i < Len(search_queries) /\ location_i < Len(locations)

\* lines 270-283: the next (search query, location) and a new browser for it
OpenBrowser ==
    /\ pc = "maps_loop"
    /\ MoreSearches
    /\ search_query' = search_queries[query_i + 1]
    /\ location' = locations[location_i + 1]
    /\ browsers' = Append(browsers, "open")
    /\ browser' = Len(browsers) + 1
    /\ pc' = "esr_load"
    /\ UNCHANGED <<max_places_to_find, url_update_count, all_addresses,
                   all_place_names, place_urls, page, temp_place_info,
                   place_info_list, update_count, iters, benchmark, place_i,
                   search_queries, locations, query_i, location_i,
                   final_places_list, printed, places_df, error>>
    /\ ProximityUnchanged
    /\ ProductUnchanged

\* line 275 raises: no browser starts, and the handler of line 313 prints
\* the error and ends the loops
OpenBrowserFails ==
    /\ pc = "maps_loop"
    /\ MoreSearches
    /\ search_query' = search_queries[query_i + 1]
    /\ location' = locations[location_i + 1]
    /\ printed' = Append(printed, <<"WebDriverException">>)
    /\ pc' = "maps_finally"
    /\ UNCHANGED <<max_places_to_find, url_update_count, all_addresses,
                   all_place_names, place_urls, page, temp_place_info,
                   place_info_list, update_count, iters, benchmark, place_i,
                   search_queries, locations, query_i, location_i, browsers,
                   browser, final_places_list, places_df, error>>
    /\ ProximityUnchanged
    /\ ProductUnchanged

\* the loop position after the search of (query_i, location_i)
NextQuery == IF location_i + 1 < Len(locations) THEN query_i ELSE query_i + 1
NextLocation == IF location_i + 1 < Len(locations) THEN location_i + 1 ELSE 0

\* the frame of extract_search_results is gone and the browser is closed
SearchLeft ==
    /\ place_urls' = <<>>
    /\ page' = BlankPage
    /\ temp_place_info' = NoPlaceInfo
    /\ place_info_list' = <<>>
    /\ update_count' = 0
    /\ iters' = 0
    /\ benchmark' = 0
    /\ place_i' = 0

\* lines 285-302, 309, 311: the search returned its places
SearchReturns ==
    /\ pc = "esr_done"
    /\ caller = "maps_scraper"
    /\ final_places_list' = final_places_list \o place_info_list
    /\ browsers' = [browsers EXCEPT ![browser] = "closed"]
    /\ query_i' = NextQuery
    /\ location_i' = NextLocation
    /\ SearchLeft
    /\ pc' = "maps_loop"
    /\ UNCHANGED <<max_places_to_find, url_update_count, all_addresses,
                   all_place_names, search_query, location, search_queries,
                   locations, browser, printed, places_df, error>>
    /\ ProximityUnchanged
    /\ ProductUnchanged

\* lines 304-311: the search raised; the error is printed
SearchRaisesLeavesOpen ==
    /\ pc = "esr_error"
    /\ caller = "maps_scraper"
    /\ printed' = Append(printed, <<"Error extracting search results for",
                                    search_query, location, error>>)
    /\ error' = None
    /\ query_i' = NextQuery
    /\ location_i' = NextLocation
    /\ SearchLeft
    /\ pc' = "maps_loop"
    /\ UNCHANGED <<max_places_to_find, url_update_count, all_addresses,
                   all_place_names, search_query, location, search_queries,
                   locations, browsers, browser, final_places_list,
                   places_df>>
    /\ ProximityUnchanged
    /\ ProductUnchanged

SearchRaisesAborts ==
    /\ pc = "esr_error"
    /\ caller = "maps_scraper"
    /\ printed' = Append(printed, <<"Error extracting search results for",
                                    search_query, location, error>>)
    /\ error' = None
    /\ browsers' = [browsers EXCEPT ![browser] = "closed"]
    /\ SearchLeft
    /\ pc' = "maps_finally"
    /\ UNCHANGED <<max_places_to_find, url_update_count, all_addresses,
                   all_place_names, search_query, location, search_queries,
                   locations, query_i, location_i, browser,
                   final_places_list, places_df>>
    /\ ProximityUnchanged
    /\ ProductUnchanged

SearchRaises ==
    /\ pc = "esr_error"
    /\ caller = "maps_scraper"
    /\ printed' = Append(printed, <<"Error extracting search results for",
                                    search_query, location, error>>)
    /\ error' = None
    /\ browsers' = [browsers EXCEPT ![browser] = "closed"]
    /\ query_i' = NextQuery
    /\ location_i' = NextLocation
    /\ SearchLeft
    /\ pc' = "maps_loop"
    /\ UNCHANGED <<max_places_to_find, url_update_count, all_addresses,
                   all_place_names, search_query, location, search_queries,
                   locations, browser, final_places_list, places_df>>
    /\ ProximityUnchanged
    /\ ProductUnchanged

\* lines 315-331: the loops are over; browser.quit() of the finally clause
\* reads a local that is unbound when no browser was started, and nothing
\* catches that; otherwise the table is built and returned
EndRun ==
    /\ \/ pc = "maps_finally"
       \/ pc = "maps_loop" /\ ~MoreSearches
    /\ IF browser = Unbound
       THEN /\ error' = "UnboundLocalError"
            /\ pc' = "maps_error"
            /\ UNCHANGED <<browsers, places_df>>
       ELSE /\ browsers' = [browsers EXCEPT ![browser] = "quit"]
            /\ places_df' = Some([columns |-> ResultColumns,
                                  data |-> final_places_list])
            /\ pc' = "maps_done"
            /\ error' = error
    /\ UNCHANGED <<search_queries, locations, query_i, location_i, browser,
                   final_places_list, printed>>
    /\ SearchUnchanged
    /\ ProximityUnchanged
    /\ ProductUnchanged

NextMaps ==
    \/ CallMapsScraper
    \/ OpenBrowser
    \/ OpenBrowserFails
    \/ LoadSearchPage
    \/ LoadSearchPageFails
    \/ ForUrl
    \/ ReturnPlaces
    \/ SearchReturns
    \/ SearchRaises
    \/ EndRun

SpecMaps == Init /\ [][NextMaps]_vars

\* ----------------------------------------------- get_next_2am_unix_timestamp
\* a call get_next_2am_unix_timestamp() at some hour in some time zone;
\* departure_time holds the value returned, as at line 416
InitTime == \E t \in 0 .. MaxHour, zone \in Zones : InitClock(t, zone)

CallGetNext2amUnixTimestamp ==
    /\ pc = "idle"
    /\ caller' = "get_next_2am_unix_timestamp"
    /\ departure_time' \in GetNext2amUnixTimestamp(now)
    /\ pc' = "returned_2am"
    /\ UNCHANGED <<origin_addresses, origin_names, destination_addresses,
                   destination_names, max_time, times_df_arg, apikey,
                   times_arr, i, j, requests, responses, now, tz, times_df,
                   new_i_list, new_j_list, comb_arr, closest_locations,
                   result, error>>
    /\ SearchUnchanged
    /\ MapsUnchanged
    /\ ProductUnchanged

NextTime == CallGetNext2amUnixTimestamp

SpecTime == InitTime /\ [][NextTime]_vars

\* the same program while time passes: the clock may advance between any two
\* requests
Tick ==
    /\ pc = "ttd_loop"
    /\ now < MaxNow
    /\ now' = now + 1
    /\ UNCHANGED <<pc, times_arr, i, j, requests, responses, departure_time,
                   times_df, new_i_list, new_j_list, comb_arr,
                   closest_locations, result, error>>
    /\ ArgsUnchanged

NextClock ==
    \/ Next
    \/ Tick

SpecClock == Init /\ [][NextClock]_vars

\* ---------------------------------------------------------- store pages
\* the two files that define extract_product_info and product_scraper
SourceFiles == {"companalysis", "nels_companalysis"}

\* the text of a span element that shows the character U+2022, which
\* separates a price from the rating and the calories
Bullet == "(bullet)"

\* the texts a span element shows: a product name, two prices, a price
\* without cents, the bullet, a rating with its number of reviews, calories
SpanTexts ==
    {"Burger", "$1.20", "$2.40", "$5", Bullet, " 90% (10)", "100 Cal"}
SpanLists(n) == UNION {[1 .. k -> SpanTexts] : k \in 0 .. n}

\* the text of the first h3 element of a li element, "" when it has none;
\* and how many li elements a store page has
Headings == {"", "Featured items", "Burgers"}
LiCounts == {0, 1}

\* element p of a Python list, counted from 0
At(list, p) == list[p + 1]

\* list.index(x)
ListIndex(list, x) ==
    CHOOSE p \in 0 .. Len(list) - 1 :
        At(list, p) = x /\ \A q \in 0 .. p - 1 : At(list, q) # x

\* re.match(price_pattern, text)
MatchesPrice(text) == text \in {"$1.20", "$2.40"}

\* text.startswith("USD") or text.startswith("$") or text.startswith("MX$")
StartsWithCurrency(text) == text \in {"$1.20", "$2.40", "$5"}

\* the test that guards the conversion of a span's text
EntersConversion(file, text) ==
    IF file = "companalysis" THEN ~MatchesPrice(text)
    ELSE StartsWithCurrency(text) /\ MatchesPrice(text)

\* round(float(text without its prefix) / 1.2, 2) in cents; NoValue when
\* float raises ValueError
ConvertPrice(text) ==
    CASE text = "$1.20" -> Some(100)
      [] text = "$2.40" -> Some(200)
      [] text = "$5"    -> Some(417)
      [] OTHER          -> NoValue

\* text.strip() == the bullet
IsBullet(text) == text = Bullet

\* re.match(review_pattern, text), and what is parsed from such a text
MatchesReview(text) == text = " 90% (10)"
RatingPercentage(text) == 90
NumReviews(text) == 10

\* int(text.split()[0]); NoValue when int raises ValueError
Calories(text) == IF text = "100 Cal" THEN Some(100) ELSE NoValue

\* what is read from the spans behind position p: a record of the rating,
\* the number of reviews and the calories, and the exception raised if any
NothingFollows ==
    [error |-> None, rating_percentage |-> NoValue, num_reviews |-> 0,
     calories |-> NoValue]
ReadFollowing(spans, p) ==
    IF ~(p + 1 < Len(spans) /\ IsBullet(At(spans, p + 1)))
    THEN NothingFollows
    ELSE IF ~(p + 2 < Len(spans))
    THEN [NothingFollows EXCEPT !.error = "IndexError"]
    ELSE IF ~MatchesReview(At(spans, p + 2))
    THEN IF Calories(At(spans, p + 2)) = NoValue
         THEN [NothingFollows EXCEPT !.error = "ValueError"]
         ELSE [NothingFollows EXCEPT !.calories = Calories(At(spans, p + 2))]
    ELSE LET reviewed ==
                 [NothingFollows EXCEPT
                      !.rating_percentage =
                          Some(RatingPercentage(At(spans, p + 2))),
                      !.num_reviews = NumReviews(At(spans, p + 2))]
         IN  IF ~(p + 3 < Len(spans) /\ IsBullet(At(spans, p + 3)))
             THEN reviewed
             ELSE IF ~(p + 4 < Len(spans))
             THEN [reviewed EXCEPT !.error = "IndexError"]
             ELSE IF Calories(At(spans, p + 4)) = NoValue
             THEN [reviewed EXCEPT !.error = "ValueError"]
             ELSE [reviewed EXCEPT !.calories = Calories(At(spans, p + 4))]

\* the three lists of extract_product_info before the first span, with the
\* loop variable index and the exception raised
NoProducts ==
    [product_names |-> <<>>, product_prices |-> <<>>,
     product_info_list |-> <<>>, index |-> 0, error |-> None]

\* one iteration of the loop over the span elements: span k of spans, in
\* the store store and the category cat, when the loop has built found
ForSpanElement(file, store, cat, spans, k, found) ==
    LET text == At(spans, k)
        price == ValueOf(ConvertPrice(text))
        product_name == IF k > 0 THEN At(spans, k - 1) ELSE None
        seen == InList(product_name, found.product_names)
        ind == IF seen THEN ListIndex(found.product_names, product_name)
               ELSE k
        read == ReadFollowing(spans, ind)
        named == [found EXCEPT
                      !.product_names = Append(@, product_name),
                      !.product_prices = Append(@, price),
                      !.index = ind]
    IN  IF ~EntersConversion(file, text)
        THEN [found EXCEPT !.index = k]
        ELSE IF ConvertPrice(text) = NoValue
        THEN [found EXCEPT !.index = k, !.error = "ValueError"]
        ELSE IF seen /\ price = At(found.product_prices, ind)
        THEN [found EXCEPT !.index = ind]
        ELSE IF read.error # None
        THEN [named EXCEPT !.error = read.error]
        ELSE [named EXCEPT
                  !.product_info_list =
                      Append(@, [store_name |-> store,
                                 category |-> cat,
                                 product_name |-> product_name,
                                 price |-> price,
                                 rating_percentage |-> read.rating_percentage,
                                 num_reviews |-> read.num_reviews,
                                 calories |-> read.calories])]

\* the li element passes the test of lines 591-593
IsCategory(heading) == heading # "" /\ heading # "Featured items"

\* ---------------------------------------------------- extract_product_info
\* a call extract_product_info(url, store_name, headless) of either file
CallExtractProductInfo ==
    /\ pc = "idle"
    /\ \E file \in SourceFiles : source_file' = file
    /\ caller' = "extract_product_info"
    /\ store_name' = "Store A"
    /\ pc' = "epi_open"
    /\ UNCHANGED <<li_elements, li_i, category, span_elements, span_i,
                   span_index, product_names, product_prices,
                   product_info_list, browsers, browser, error>>
    /\ UNCHANGED <<search_queries, locations, query_i, location_i,
                   final_places_list, printed, places_df>>
    /\ UNCHANGED <<origin_addresses, origin_names, destination_addresses,
                   destination_names, max_time, times_df_arg, apikey,
                   times_arr, i, j, requests, responses, now, tz,
                   departure_time, times_df, new_i_list, new_j_list,
                   comb_arr, closest_locations, result>>
    /\ ScraperUnchanged
    /\ SearchUnchanged

\* the variables of the product scraper that the actions of
\* extract_product_info leave alone
ExtractFrame ==
    /\ UNCHANGED <<source_file, store_name>>
    /\ UNCHANGED <<search_queries, locations, query_i, location_i,
                   final_places_list, printed, places_df>>
    /\ ScraperUnchanged
    /\ SearchUnchanged
    /\ ProximityUnchanged

\* lines 576-588 (nels_companalysis.py lines 75-114): a browser is started
\* and shows the page of the store; nels_companalysis.py reads every span
\* of the page, companalysis.py the li elements
OpenStorePage ==
    /\ pc = "epi_open"
    /\ browsers' = Append(browsers, "open")
    /\ browser' = Len(browsers) + 1
    /\ product_info_list' = <<>>
    /\ product_names' = <<>>
    /\ product_prices' = <<>>
    /\ span_i' = 0
    /\ li_i' = 0
    /\ IF source_file = "companalysis"
       THEN /\ \E n \in LiCounts : li_elements' = n
            /\ pc' = "epi_li"
            /\ UNCHANGED <<category, span_elements>>
       ELSE /\ \E spans \in SpanLists(MaxSpans) : span_elements' = spans
            /\ category' = None
            /\ pc' = "epi_span"
            /\ UNCHANGED li_elements
    /\ UNCHANGED <<span_index, error>>
    /\ ExtractFrame

\* line 577 raises: the page of the store cannot be loaded
OpenStorePageFails ==
    /\ pc = "epi_open"
    /\ browsers' = Append(browsers, "open")
    /\ browser' = Len(browsers) + 1
    /\ error' = "WebDriverException"
    /\ pc' = "epi_error"
    /\ UNCHANGED <<li_elements, li_i, category, span_elements, span_i,
                   span_index, product_names, product_prices,
                   product_info_list>>
    /\ ExtractFrame

\* lines 590-600 of companalysis.py: the next li element; its spans are
\* read if it is a category
ForLiElement ==
    /\ pc = "epi_li"
    /\ li_i < li_elements
    /\ \E heading \in Headings :
          IF IsCategory(heading)
          THEN /\ category' = heading
               /\ \E spans \in SpanLists(MaxSpans) : span_elements' = spans
               /\ span_i' = 0
               /\ pc' = "epi_span"
               /\ UNCHANGED li_i
          ELSE /\ li_i' = li_i + 1
               /\ UNCHANGED <<category, span_elements, span_i, pc>>
    /\ UNCHANGED <<li_elements, span_index, product_names, product_prices,
                   product_info_list, browsers, browser, error>>
    /\ ExtractFrame

\* lines 602-654 (nels_companalysis.py lines 116-178): one span element
ForSpan ==
    /\ pc = "epi_span"
    /\ span_i < Len(span_elements)
    /\ LET found == ForSpanElement(source_file, store_name, category,
                                   span_elements, span_i,
                                   [product_names |-> product_names,
                                    product_prices |-> product_prices,
                                    product_info_list |-> product_info_list,
                                    index |-> span_i,
                                    error |-> None])
       IN  /\ product_names' = found.product_names
           /\ product_prices' = found.product_prices
           /\ product_info_list' = found.product_info_list
           /\ span_index' = found.index
           /\ error' = found.error
           /\ IF found.error = None
              THEN span_i' = span_i + 1 /\ pc' = pc
              ELSE span_i' = span_i /\ pc' = "epi_error"
    /\ UNCHANGED <<li_elements, li_i, category, span_elements, browsers,
                   browser>>
    /\ ExtractFrame

\* line 602 of companalysis.py: the spans of the li element are exhausted
EndLiElement ==
    /\ pc = "epi_span"
    /\ source_file = "companalysis"
    /\ span_i >= Len(span_elements)
    /\ li_i' = li_i + 1
    /\ pc' = "epi_li"
    /\ UNCHANGED <<li_elements, category, span_elements, span_i, span_index,
                   product_names, product_prices, product_info_list,
                   browsers, browser, error>>
    /\ ExtractFrame

\* lines 656-658 (nels_companalysis.py lines 180-182): the loops are over
ReturnProducts ==
    /\ \/ pc = "epi_li" /\ li_i >= li_elements
       \/ /\ pc = "epi_span"
          /\ source_file = "nels_companalysis"
          /\ span_i >= Len(span_elements)
    /\ browsers' = [browsers EXCEPT ![browser] = "quit"]
    /\ pc' = "epi_done"
    /\ UNCHANGED <<li_elements, li_i, category, span_elements, span_i,
                   span_index, product_names, product_prices,
                   product_info_list, browser, error>>
    /\ ExtractFrame

NextExtract ==
    \/ CallExtractProductInfo
    \/ OpenStorePage
    \/ OpenStorePageFails
    \/ ForLiElement
    \/ ForSpan
    \/ EndLiElement
    \/ ReturnProducts

SpecExtract == Init /\ [][NextExtract]_vars

\* ---------------------------------------------------------- product_scraper
\* the texts of the h3 elements and the hrefs of the store cards that the
\* page of the stores shows
StoreTexts == {"", "Store A", "Store B"}
StoreLinks == {"url a", "url b"}
ListsOf(S, n) == UNION {[1 .. k -> S] : k \in 0 .. n}

\* lines 814-817: the names of the stores, without "" and without repeats
RECURSIVE StoreNames(_)
StoreNames(texts) ==
    IF texts = <<>> THEN <<>>
    ELSE LET before == StoreNames(SubSeq(texts, 1, Len(texts) - 1))
             name == texts[Len(texts)]
         IN  IF name # "" /\ ~InList(name, before)
             THEN Append(before, name) ELSE before

\* lines 823-826: the links of the stores, without repeats
RECURSIVE StoreUrls(_)
StoreUrls(hrefs) ==
    IF hrefs = <<>> THEN <<>>
    ELSE LET before == StoreUrls(SubSeq(hrefs, 1, Len(hrefs) - 1))
             store_url == hrefs[Len(hrefs)]
         IN  IF ~InList(store_url, before)
             THEN Append(before, store_url) ELSE before

\* min(a, b)
Smaller(a, b) == IF a < b THEN a ELSE b

\* range(max_stores) of the list of line 854: line 811 caps max_stores by
\* the number of h3 elements, and nels_companalysis.py line 395 also by the
\* number of links
TaskCount(file, stores, h3s, urls) ==
    LET capped == IF Len(h3s) < stores THEN Len(h3s) ELSE stores
    IN  IF file = "nels_companalysis" THEN Smaller(capped, Len(urls))
        ELSE capped

\* the page of a store that a task visits: one li element and its spans
TaskPages ==
    {[heading |-> h, spans |-> sp] :
        h \in Headings, sp \in SpanLists(MaxTaskSpans)}

\* the loop over the span elements from position k on
RECURSIVE ForSpans(_, _, _, _, _, _)
ForSpans(file, store, cat, spans, k, found) ==
    IF k >= Len(spans) \/ found.error # None THEN found
    ELSE ForSpans(file, store, cat, spans, k + 1,
                  ForSpanElement(file, store, cat, spans, k, found))

\* lines 584-654: what extract_product_info builds on the page shown
ExtractProductInfo(file, store, shown) ==
    IF file = "nels_companalysis"
    THEN ForSpans(file, store, None, shown.spans, 0, NoProducts)
    ELSE IF IsCategory(shown.heading)
    THEN ForSpans(file, store, shown.heading, shown.spans, 0, NoProducts)
    ELSE NoProducts

\* line 865: the columns of the table
ProductColumns ==
    <<"Store Name", "Category", "Product Name", "Price", "Rating",
      "Number of Reviews", "Calories">>

\* lines 861-862: the rows of the results, in the order of the tasks
RECURSIVE AllStoresInfo(_)
AllStoresInfo(outcomes) ==
    IF outcomes = <<>> THEN <<>>
    ELSE AllStoresInfo(SubSeq(outcomes, 1, Len(outcomes) - 1))
         \o ValueOf(outcomes[Len(outcomes)]).rows

\* the variables that the actions of product_scraper leave alone
ScraperFrame ==
    /\ UNCHANGED <<search_queries, locations, query_i, location_i,
                   final_places_list, printed, places_df>>
    /\ ExtractUnchanged
    /\ SearchUnchanged
    /\ ProximityUnchanged

\* a call product_scraper(search_query, location, max_stores, filename,
\* headless, debug_mode) of either file, with no filename; lines 787-792
CallProductScraper ==
    /\ pc = "idle"
    /\ \E file \in SourceFiles, stores \in 0 .. MaxStores, debug \in BOOLEAN :
          /\ source_file' = file
          /\ max_stores' = stores
          /\ debug_mode' = debug
          /\ IF stores < 1
             THEN error' = "ValueError" /\ pc' = "ps_error"
             ELSE error' = error /\ pc' = "ps_setup"
    /\ caller' = "product_scraper"
    /\ UNCHANGED <<stores_list, store_urls_list, store_names, store_urls,
                   tasks, results, all_stores_df, browsers, browser>>
    /\ UNCHANGED <<search_queries, locations, query_i, location_i,
                   final_places_list, printed, places_df>>
    /\ UNCHANGED <<origin_addresses, origin_names, destination_addresses,
                   destination_names, max_time, times_df_arg, apikey,
                   times_arr, i, j, requests, responses, now, tz,
                   departure_time, times_df, new_i_list, new_j_list,
                   comb_arr, closest_locations, result>>
    /\ ExtractUnchanged
    /\ SearchUnchanged

\* line 797: setup_extraction (lines 662-765) starts a browser, searches
\* and returns the browser
SetupExtraction ==
    /\ pc = "ps_setup"
    /\ browsers' = Append(browsers, "open")
    /\ browser' = Len(browsers) + 1
    /\ pc' = "ps_read"
    /\ UNCHANGED <<source_file, max_stores, debug_mode, stores_list,
                   store_urls_list, store_names, store_urls, tasks, results,
                   all_stores_df, error>>
    /\ ScraperFrame

\* lines 712 and 740: setup_extraction has started its browser (line 673)
\* and raises because a search bar is not found
SetupExtractionFails ==
    /\ pc = "ps_setup"
    /\ browsers' = Append(browsers, "open")
    /\ error' = "Exception"
    /\ pc' = "ps_error"
    /\ UNCHANGED <<source_file, max_stores, debug_mode, stores_list,
                   store_urls_list, store_names, store_urls, tasks, results,
                   all_stores_df, browser>>
    /\ ScraperFrame

\* lines 804-854 (nels_companalysis.py lines 341-398): the h3 elements and
\* the store cards are read, and the list of tasks is built; the loop of
\* line 832 and the list of line 854 raise IndexError beyond a list's end
ReadStores ==
    /\ pc = "ps_read"
    /\ \E h3s \in ListsOf(StoreTexts, MaxStoreTags),
          hrefs \in ListsOf(StoreLinks, MaxStoreTags) :
          LET names == StoreNames(h3s)
              urls == StoreUrls(hrefs)
              count == TaskCount(source_file, max_stores, h3s, urls)
          IN  /\ stores_list' = h3s
              /\ store_urls_list' = hrefs
              /\ store_names' = names
              /\ store_urls' = urls
              /\ IF debug_mode /\ Len(names) > Len(urls)
                 THEN /\ max_stores' = Smaller(max_stores, Len(h3s))
                      /\ tasks' = <<>>
                      /\ results' = <<>>
                      /\ error' = "IndexError"
                      /\ pc' = "ps_error"
                 ELSE IF count > Len(urls) \/ count > Len(names)
                 THEN /\ max_stores' = count
                      /\ tasks' = <<>>
                      /\ results' = <<>>
                      /\ error' = "IndexError"
                      /\ pc' = "ps_error"
                 ELSE /\ max_stores' = count
                      /\ tasks' = [t \in 1 .. count |->
                                     [url |-> urls[t],
                                      store_name |-> names[t]]]
                      /\ results' = [t \in 1 .. count |-> NoValue]
                      /\ error' = error
                      /\ pc' = "ps_compute"
    /\ UNCHANGED <<source_file, debug_mode, all_stores_df, browsers, browser>>
    /\ ScraperFrame

\* line 858: a process runs one task, extract_product_info on the page of
\* its store; the session of the task is quit at line 656 if nothing raised
RunTask ==
    /\ pc = "ps_compute"
    /\ \E t \in DOMAIN tasks, shown \in TaskPages :
          LET found == ExtractProductInfo(source_file, tasks[t].store_name,
                                          shown)
          IN  /\ results[t] = NoValue
              /\ browsers' = Append(browsers, IF found.error = None
                                              THEN "quit" ELSE "open")
              /\ results' = [results EXCEPT
                                 ![t] = Some([rows |-> found.product_info_list,
                                              error |-> found.error])]
    /\ UNCHANGED <<source_file, max_stores, debug_mode, stores_list,
                   store_urls_list, store_names, store_urls, tasks,
                   all_stores_df, browser, error, pc>>
    /\ ScraperFrame

\* line 858: a task whose browser cannot load the page of its store
\* (line 577)
RunTaskFails ==
    /\ pc = "ps_compute"
    /\ \E t \in DOMAIN tasks :
          /\ results[t] = NoValue
          /\ browsers' = Append(browsers, "open")
          /\ results' = [results EXCEPT
                             ![t] = Some([rows |-> <<>>,
                                          error |-> "WebDriverException"])]
    /\ UNCHANGED <<source_file, max_stores, debug_mode, stores_list,
                   store_urls_list, store_names, store_urls, tasks,
                   all_stores_df, browser, error, pc>>
    /\ ScraperFrame

\* line 858: compute raises the exception of a task
ComputeRaises ==
    /\ pc = "ps_compute"
    /\ \E t \in DOMAIN tasks :
          /\ results[t] # NoValue
          /\ ValueOf(results[t]).error # None
          /\ error' = ValueOf(results[t]).error
    /\ pc' = "ps_error"
    /\ UNCHANGED <<source_file, max_stores, debug_mode, stores_list,
                   store_urls_list, store_names, store_urls, tasks, results,
                   all_stores_df, browsers, browser>>
    /\ ScraperFrame

\* lines 858-880: every task returned; the table is built, the browser of
\* the setup is quit and the table is returned
ReturnAllStores ==
    /\ pc = "ps_compute"
    /\ \A t \in DOMAIN tasks :
          results[t] # NoValue /\ ValueOf(results[t]).error = None
    /\ all_stores_df' = Some([columns |-> ProductColumns,
                              data |-> AllStoresInfo(results)])
    /\ browsers' = [browsers EXCEPT ![browser] = "quit"]
    /\ pc' = "ps_done"
    /\ UNCHANGED <<source_file, max_stores, debug_mode, stores_list,
                   store_urls_list, store_names, store_urls, tasks, results,
                   browser, error>>
    /\ ScraperFrame

NextProduct ==
    \/ CallProductScraper
    \/ SetupExtraction
    \/ SetupExtractionFails
    \/ ReadStores
    \/ RunTask
    \/ RunTaskFails
    \/ ComputeRaises
    \/ ReturnAllStores

SpecProduct == Init /\ [][NextProduct]_vars

\* ------------------------------------------------- vocabulary of the claims
\* get_closest_locations has returned
Returned == pc = "done" /\ caller = "get_closest_locations"

\* the travel-time matrix the assignment was computed from
Matrix == ValueOf(times_df).values
NumOrigins == ValueOf(times_df).shape[1]
NumDestinations == ValueOf(times_df).shape[2]

Eligible(r, c) == Matrix[r][c] < max_time
EligibleOrigins(c) == {r \in Rows(NumOrigins) : Eligible(r, c)}

\* the records of the returned list, in order, and those of destination c
Records == comb_arr
RecordsOf(c) == {p \in DOMAIN Records : Records[p][2] = c}

\* the returned list has one output string per record, in the same order
ReturnedStrings == ValueOf(result)[2]

\* the eligible origins of column c with the least travel time
ClosestOrigins(c) ==
    {r \in EligibleOrigins(c) :
        \A q \in EligibleOrigins(c) : Matrix[r][c] <= Matrix[q][c]}

\* C1: the returned list has exactly one record for each destination column
\* with at least one eligible origin, none for the other columns, and so no
\* destination index in more than one record.
C1_OneRecordPerDestination ==
    Returned =>
        \A c \in Rows(NumDestinations) :
            Cardinality(RecordsOf(c)) = (IF EligibleOrigins(c) # {} THEN 1 ELSE 0)

\* C2: every record (r, c) has Matrix[r][c] < max_time and a travel time no
\* larger than that of any eligible origin of c.
C2_RecordIsEligibleMinimum ==
    Returned =>
        \A p \in DOMAIN Records :
            LET r == Records[p][1]
                c == Records[p][2]
            IN  /\ r \in Rows(NumOrigins)
                /\ c \in Rows(NumDestinations)
                /\ Matrix[r][c] < max_time
                /\ \A q \in EligibleOrigins(c) : Matrix[r][c] <= Matrix[q][c]

\* a destination with several eligible origins at different travel times, of
\* which the first is not the closest, has a record
C2_Witness ==
    /\ Returned
    /\ \E p \in DOMAIN Records :
          /\ Records[p][1] > 0
          /\ Cardinality(EligibleOrigins(Records[p][2])) >= 2
          /\ Matrix[0][Records[p][2]] > Matrix[Records[p][1]][Records[p][2]]

\* the call of the example: matrix [[500, 900], [300, 300]], max_time = 600
C3_Example ==
    /\ Returned
    /\ ValueOf(times_df).shape = <<2, 2>>
    /\ Matrix[0][0] = 500 /\ Matrix[0][1] = 900
    /\ Matrix[1][0] = 300 /\ Matrix[1][1] = 300
    /\ max_time = 600

\* C3 as stated: the example yields exactly one record, (1, 0), and none for
\* destination 1.
C3_AsStated == C3_Example => Records = << <<1, 0>> >>

\* C3: in the example every record names origin 1, and both destination 0
\* (300) and destination 1 (300 < 600) have a record.
C3_ExampleRecords ==
    C3_Example =>
        /\ {Records[p] : p \in DOMAIN Records} = {<<1, 0>>, <<1, 1>>}
        /\ Len(ReturnedStrings) = Len(Records)

C3_Witness == C3_Example /\ Len(Records) > 0

\* C4: a destination whose least eligible travel time is shared by two or
\* more origins has a record, and its records name the lowest of those rows.
C4_TieBreakLowestIndex ==
    Returned =>
        \A c \in Rows(NumDestinations) :
            Cardinality(ClosestOrigins(c)) >= 2 =>
                /\ RecordsOf(c) # {}
                /\ \A p \in RecordsOf(c) :
                      \A q \in ClosestOrigins(c) : Records[p][1] <= q

C4_Witness ==
    /\ Returned
    /\ \E c \in Rows(NumDestinations) :
          /\ Cardinality(ClosestOrigins(c)) >= 2
          /\ 0 \notin ClosestOrigins(c)
          /\ RecordsOf(c) # {}

\* C5: no record names a cell whose value equals max_time, and the 1 x 1
\* matrix [[600]] with max_time = 600 returns an empty list.
C5_StrictEligibility ==
    Returned =>
        /\ \A p \in DOMAIN Records : Matrix[Records[p][1]][Records[p][2]] # max_time
        /\ (/\ ValueOf(times_df).shape = <<1, 1>>
            /\ Matrix[0][0] = 600
            /\ max_time = 600) => ReturnedStrings = <<>>

\* a column holds a cell equal to max_time in a row above an eligible one
C5_Witness ==
    /\ Returned
    /\ \E c \in Rows(NumDestinations) :
          /\ NumOrigins >= 2
          /\ Matrix[0][c] = max_time
          /\ RecordsOf(c) # {}

\* C6: a column without a cell < max_time has no record; a matrix without
\* any cell < max_time goes through the assignment and the formatting
\* without an error and returns the empty list.
C6_NoEligibleNoRecord ==
    /\ [](Returned =>
            \A c \in Rows(NumDestinations) :
                EligibleOrigins(c) = {} => RecordsOf(c) = {})
    /\ [][(/\ pc \in {"assign", "format"}
           /\ \A c \in Rows(NumDestinations) : EligibleOrigins(c) = {})
          => (/\ pc' \in {"format", "done"}
              /\ error' = None
              /\ comb_arr' = <<>>
              /\ (pc' = "done" => ValueOf(result')[2] = <<>>))]_vars

\* a matrix with cells, none of them eligible, next to one where a column
\* without eligible origin stands beside a column with a record
C6_Witness ==
    /\ Returned
    /\ NumOrigins >= 1
    /\ \E c \in Rows(NumDestinations) : EligibleOrigins(c) = {}
    /\ \/ \A c \in Rows(NumDestinations) : EligibleOrigins(c) = {}
       \/ Records # <<>>

\* C7: a destination with exactly one eligible origin has a record, and its
\* records name that origin.
C7_SingleEligibleSelected ==
    Returned =>
        \A c \in Rows(NumDestinations) :
            \A r \in Rows(NumOrigins) :
                EligibleOrigins(c) = {r} =>
                    /\ RecordsOf(c) # {}
                    /\ \A p \in RecordsOf(c) : Records[p][1] = r

C7_Witness ==
    /\ Returned
    /\ \E c \in Rows(NumDestinations) :
          /\ EligibleOrigins(c) = {1}
          /\ RecordsOf(c) # {}

\* C8: from the assignment on, times_df is the DataFrame time_to_destinations
\* built (its cells, its shape and its labels), and it is the first element
\* of the returned pair.
C8_MatrixUnchanged ==
    (caller = "get_closest_locations" /\ pc \in {"format", "done"}) =>
        /\ ValueOf(times_df) =
              DataFrame(times_arr, PyLen(origin_addresses),
                        PyLen(destination_addresses), destination_names,
                        origin_names)
        /\ pc = "done" => ValueOf(result)[1] = ValueOf(times_df)

\* a returned matrix with a record and a cell that is not eligible
C8_Witness ==
    /\ Returned
    /\ Records # <<>>
    /\ \E c \in Rows(NumDestinations) :
          \E r \in Rows(NumOrigins) : Matrix[r][c] >= max_time

\* C9: the returned records are in ascending order of origin index.
C9_SortedByOrigin ==
    Returned =>
        \A p \in DOMAIN Records :
            p + 1 \in DOMAIN Records => Records[p][1] <= Records[p + 1][1]

\* the list built by the loop was not in order before the sort
C9_Witness ==
    /\ Returned
    /\ \E p \in DOMAIN new_i_list :
          p + 1 \in DOMAIN new_i_list /\ new_i_list[p] > new_i_list[p + 1]

\* C10: consecutive returned records with the same origin index are in
\* ascending order of destination index (checked on the build whose argsort
\* is stable, the case the claim is about).
C10_DestinationsAscendingWithinOrigin ==
    Returned =>
        \A p \in DOMAIN Records :
            (p + 1 \in DOMAIN Records /\ Records[p][1] = Records[p + 1][1])
                => Records[p][2] <= Records[p + 1][2]

\* ------------------------------------- vocabulary of the request claims
NumOriginAddresses == PyLen(origin_addresses)
NumDestinationAddresses == PyLen(destination_addresses)

\* time_to_destinations has been entered
CalledTimeToDestinations ==
    \/ caller = "time_to_destinations" /\ pc # "idle"
    \/ caller = "get_closest_locations" /\ times_df_arg = NoValue /\ apikey
       /\ pc \notin {"idle", "gcl_check"}

\* the positions in the log of the requests made for the pair (r, c)
RequestsFor(r, c) ==
    {p \in DOMAIN requests :
        /\ requests[p].origin = origin_addresses[r]
        /\ requests[p].destination = destination_addresses[c]}

\* time_to_destinations has left its loops without an exception
LoopsDone == pc \in {"ttd_build", "assign", "format", "done"}

\* C12: a call of get_closest_locations without matrix and without key ends
\* in the ValueError for the missing key, with no request issued and nothing
\* returned.
C12_NoMatrixNoKeyRejected ==
    (/\ caller = "get_closest_locations"
     /\ times_df_arg = NoValue
     /\ ~apikey
     /\ pc \notin {"idle", "gcl_check"})
        => /\ pc = "error"
           /\ error = "ValueError: API key required"
           /\ requests = <<>>
           /\ times_df = NoValue
           /\ closest_locations = <<>>
           /\ result = NoValue

\* the rejected call had name lists that do not match the address lists
C12_Witness ==
    /\ caller = "get_closest_locations"
    /\ times_df_arg = NoValue
    /\ ~apikey
    /\ pc = "error"
    /\ PyLen(origin_names) # NumOriginAddresses

\* C13: a call of get_closest_locations with a precomputed matrix does not
\* fail, issues no request and returns that matrix with the assignments.
C13_GivenMatrixUsed ==
    (/\ caller = "get_closest_locations"
     /\ times_df_arg # NoValue
     /\ pc \notin {"idle", "gcl_check"})
        => /\ pc # "error"
           /\ requests = <<>>
           /\ pc = "done" => ValueOf(result)[1] = ValueOf(times_df_arg)

\* C14: time_to_destinations, called by the user or by get_closest_locations
\* for a missing matrix, with name lists that do not match the address
\* lists, or without key, ends in an error with no request issued.
C14_MismatchRejected ==
    (/\ caller \in {"time_to_destinations", "get_closest_locations"}
     /\ times_df_arg = NoValue
     /\ pc \notin {"idle", "gcl_check", "ttd_check"}
     /\ \/ PyLen(origin_names) # NumOriginAddresses
        \/ PyLen(destination_names) # NumDestinationAddresses
        \/ ~apikey)
        => /\ pc = "error"
           /\ requests = <<>>
           /\ result = NoValue

\* only the destination names are off, and there are pairs to request
C14_Witness ==
    /\ caller = "time_to_destinations"
    /\ pc = "error"
    /\ apikey
    /\ PyLen(origin_names) = NumOriginAddresses
    /\ PyLen(destination_names) # NumDestinationAddresses
    /\ NumOriginAddresses * NumDestinationAddresses > 0

\* C15: when every response was a success, n * m requests were issued, one
\* for each pair, and each cell holds the duration of the response to the
\* request of its own pair; while the loops run, the cells of the pairs not
\* yet requested are still 0.
C15_OneRequestPerPair ==
    (/\ CalledTimeToDestinations
     /\ \A p \in DOMAIN responses : responses[p].status = "OK")
        => /\ LoopsDone =>
                Len(requests) = NumOriginAddresses * NumDestinationAddresses
           /\ pc \in {"ttd_loop"} \cup {"ttd_build", "assign", "format", "done"} =>
                \A r \in Rows(NumOriginAddresses) :
                    \A c \in Rows(NumDestinationAddresses) :
                        /\ Cardinality(RequestsFor(r, c)) <= 1
                        /\ LoopsDone => Cardinality(RequestsFor(r, c)) = 1
                        /\ \A p \in RequestsFor(r, c) :
                              /\ p \in DOMAIN responses
                              /\ times_arr[r][c] = responses[p].duration
                        /\ RequestsFor(r, c) = {} => times_arr[r][c] = 0

C15_Witness ==
    /\ CalledTimeToDestinations
    /\ pc = "done"
    /\ NumOriginAddresses >= 2
    /\ NumDestinationAddresses >= 2
    /\ \A p \in DOMAIN responses : responses[p].status = "OK"
    /\ \E p \in DOMAIN responses : responses[p].duration # responses[1].duration

\* C16: all requests of one call of time_to_destinations carry the same
\* departure_time.
C16_OneDepartureTime ==
    \A p \in DOMAIN requests :
        \A q \in DOMAIN requests :
            requests[p].departure_time = requests[q].departure_time

\* C17: a response with status code 200 and a status other than OK leaves
\* its cell at 0 and raises nothing: an exception comes from a later
\* response, the loops go on with the next pair, and they end only after
\* n * m requests.
C17_NoRouteLeavesZero ==
    \A p \in DOMAIN responses :
        (responses[p] = ResponseNoRoute) =>
            /\ \A r \in Rows(NumOriginAddresses) :
                  \A c \in Rows(NumDestinationAddresses) :
                      p \in RequestsFor(r, c) => times_arr[r][c] = 0
            /\ pc = "error" => p < Len(responses)
            /\ pc = "ttd_loop" =>
                  Len(requests) = i * NumDestinationAddresses + j
            /\ LoopsDone =>
                  Len(requests) = NumOriginAddresses * NumDestinationAddresses

\* a pair without route was followed by further requests
C17_Witness ==
    /\ pc = "done"
    /\ Len(responses) >= 2
    /\ responses[1] = ResponseNoRoute
    /\ responses[Len(responses)].status = "OK"

\* C18: a response with a status code other than 200 is the last one: the
\* call ends in an exception, no further request is issued, no matrix and no
\* assignment is returned.
C18_TransportFailureAborts ==
    \A p \in DOMAIN responses :
        responses[p].status_code # 200 =>
            /\ pc = "error"
            /\ error = "Exception: Google Maps API error"
            /\ p = Len(responses)
            /\ Len(requests) = p
            /\ times_df = NoValue
            /\ closest_locations = <<>>
            /\ result = NoValue

\* get_closest_locations made the call, and pairs were left to request
C18_Witness ==
    /\ caller = "get_closest_locations"
    /\ pc = "error"
    /\ Len(responses) >= 2
    /\ responses[Len(responses)].status_code # 200
    /\ Len(requests) < NumOriginAddresses * NumDestinationAddresses

\* the origins without route to destination c
NoRouteOrigins(c) ==
    {r \in Rows(NumOriginAddresses) :
        \E p \in RequestsFor(r, c) : responses[p] = ResponseNoRoute}

\* C19: a destination with an origin whose pair had no route has a record,
\* and its records name the lowest such origin, whatever the other origins'
\* travel times (max_time is positive).
C19_NoRouteCellSelected ==
    Returned =>
        \A c \in Rows(NumDestinations) :
            NoRouteOrigins(c) # {} =>
                /\ max_time > 0
                /\ RecordsOf(c) # {}
                /\ \A p \in RecordsOf(c) :
                      /\ Records[p][1] \in NoRouteOrigins(c)
                      /\ \A r \in NoRouteOrigins(c) : Records[p][1] <= r

\* the pair without route is below an origin that is eligible with a
\* positive travel time
C19_Witness ==
    /\ Returned
    /\ \E c \in Rows(NumDestinations) :
          /\ NoRouteOrigins(c) # {}
          /\ 0 \notin NoRouteOrigins(c)
          /\ Matrix[0][c] < max_time
          /\ RecordsOf(c) # {}

\* --------------------------------------- vocabulary of the format claim
\* the lines of a str: the text before each line break, and the text after
\* the last one when there is any
RECURSIVE SplitLinesFrom(_, _, _)
SplitLinesFrom(str, p, line) ==
    IF p > Len(str) THEN (IF line = <<>> THEN <<>> ELSE <<line>>)
    ELSE IF str[p] = "\n" THEN <<line>> \o SplitLinesFrom(str, p + 1, <<>>)
    ELSE SplitLinesFrom(str, p + 1, Append(line, str[p]))

SplitLines(str) == SplitLinesFrom(str, 1, <<>>)

\* the four lines the claim names for the pair (r, c)
ExpectedLines(r, c) ==
    << <<"Origin Name: ">> \o origin_names[r],
       <<"Origin Address: ">> \o origin_addresses[r],
       <<"Destination Name: ">> \o destination_names[c],
       <<"Destination Address: ">> \o destination_addresses[c] >>

HasLineBreak(str) == \E p \in DOMAIN str : str[p] = "\n"

FieldHasLineBreak(r, c) ==
    \/ HasLineBreak(origin_names[r])
    \/ HasLineBreak(origin_addresses[r])
    \/ HasLineBreak(destination_names[c])
    \/ HasLineBreak(destination_addresses[c])

\* C11 as stated: the lines of every returned string are the four prefixed
\* field values of its record, whatever the field values are.
C11_AsStated ==
    Returned =>
        \A p \in DOMAIN ReturnedStrings :
            SplitLines(ReturnedStrings[p]) =
                ExpectedLines(Records[p][1], Records[p][2])

\* C11: the lines of a returned string are the four prefixed field values
\* of its record when none of the four field values contains a line break.
C11_FourLinesRoundTrip ==
    Returned =>
        /\ Len(ReturnedStrings) = Len(Records)
        /\ \A p \in DOMAIN ReturnedStrings :
              ~FieldHasLineBreak(Records[p][1], Records[p][2]) =>
                  SplitLines(ReturnedStrings[p]) =
                      ExpectedLines(Records[p][1], Records[p][2])

\* a record of origin 1 whose name and address differ
C11_Witness ==
    /\ Returned
    /\ \E p \in DOMAIN ReturnedStrings :
          /\ Records[p][1] = 1
          /\ ~FieldHasLineBreak(1, Records[p][2])
          /\ origin_names[1] # origin_addresses[1]
          /\ Len(SplitLines(ReturnedStrings[p])) = 4

\* --------------------------------------- vocabulary of the search claims
SearchReturned == pc = "esr_done"

\* C20: a search returns at most max_places_to_find places.
C20_AtMostMaxPlaces ==
    SearchReturned => Len(place_info_list) <= max_places_to_find

\* the same bound for the calls that ask for at least one place
AtMostMaxPlacesWhenPositive ==
    (SearchReturned /\ max_places_to_find >= 1) =>
        Len(place_info_list) <= max_places_to_find

\* ---------------------------------------- vocabulary of the clock claim
Returned2am == pc = "returned_2am"

\* the local clock shows 02:00 at the hour t
IsTwoAM(t) == LocalTime(t, tz) % HoursPerDay = TwoAM

\* the local day of the hour t
LocalDay(t) == LocalTime(t, tz) \div HoursPerDay

NextTwoAM ==
    /\ IsTwoAM(departure_time)
    /\ departure_time > now
    /\ \A t \in (now + 1) .. (departure_time - 1) : ~IsTwoAM(t)
    /\ LocalDay(departure_time) =
          IF LocalTime(now, tz) % HoursPerDay < TwoAM
          THEN LocalDay(now) ELSE LocalDay(now) + 1
    /\ departure_time - now <= HoursPerDay

\* C21: the value returned is the earliest hour after now at which the local
\* clock shows 02:00 (today's before 02:00, tomorrow's from 02:00 on), and
\* it is at most 24 hours ahead.
C21_NextTwoAM == Returned2am => NextTwoAM

\* the same in a time zone that keeps one offset
NextTwoAMWithoutClockChange == (Returned2am /\ tz = NoChange) => NextTwoAM

\* ---------------------------------------- vocabulary of the maps claims
MapsRunning == caller = "maps_scraper"
MapsReturned == MapsRunning /\ pc = "maps_done"
MapsRaised == MapsRunning /\ pc = "maps_error"

\* the sessions that are open
OpenSessions == {b \in DOMAIN browsers : browsers[b] = "open"}

\* the searches whose extraction failed so far
FailedSearches == {p \in DOMAIN printed : Len(printed[p]) = 4}

\* C23: at most one browser session is open at any time, and none is open
\* when the next one is about to be opened or when the run has ended,
\* whether or not the search in it failed.
C23_OneSessionAtATime ==
    MapsRunning =>
        /\ Cardinality(OpenSessions) <= 1
        /\ pc \in {"maps_loop", "maps_finally", "maps_done", "maps_error"}
              => OpenSessions = {}

\* the second search is about to start after the first one failed
C23_Witness ==
    /\ MapsRunning
    /\ pc = "maps_loop"
    /\ MoreSearches
    /\ Len(browsers) = 1
    /\ FailedSearches = {1}

\* the browser could not be started for some search
BrowserFailed == \E p \in DOMAIN printed : Len(printed[p]) = 1

\* seq is the beginning of longer
IsPrefix(seq, longer) ==
    Len(seq) <= Len(longer) /\ SubSeq(longer, 1, Len(seq)) = seq

\* the step in which the failure of a search is handled
FailureHandled ==
    MapsRunning /\ pc = "esr_error" /\ pc' # "esr_error"

\* the step in which a search hands over its places
PlacesHandedOver ==
    MapsRunning /\ pc = "esr_done" /\ pc' # "esr_done"

\* C24: a search that fails is followed by the next (search query,
\* location), a run whose browsers all started ends only after every
\* combination was searched, the places a search returns are added to the
\* collected places, which never lose a place, and the returned table holds
\* the collected places.
C24_FailureDoesNotAbort ==
    /\ [][FailureHandled =>
            /\ pc' = "maps_loop"
            /\ query_i' = NextQuery
            /\ location_i' = NextLocation
            /\ final_places_list' = final_places_list]_vars
    /\ [][PlacesHandedOver =>
            final_places_list' = final_places_list \o place_info_list]_vars
    /\ [][(MapsRunning /\ pc # "idle") =>
            IsPrefix(final_places_list, final_places_list')]_vars
    /\ []((MapsReturned /\ ~BrowserFailed) =>
            Len(browsers) = Len(search_queries) * Len(locations))
    /\ [](MapsReturned =>
            ValueOf(places_df).data = final_places_list)

\* a run of two searches returned a place although its first search failed
C24_Witness ==
    /\ MapsReturned
    /\ Len(browsers) = 2
    /\ FailedSearches = {1}
    /\ Len(ValueOf(places_df).data) >= 1

\* C25: a run with no search query or no location starts no browser and
\* returns the empty table with the eleven columns, without an error.
C25_EmptyInputsReturnEmptyTable ==
    (/\ MapsRunning
     /\ search_queries = <<>> \/ locations = <<>>
     /\ pc \notin {"idle", "maps_loop"}) =>
        /\ pc = "maps_done"
        /\ error = None
        /\ browsers = <<>>
        /\ ValueOf(places_df) = [columns |-> ResultColumns, data |-> <<>>]

\* the places accepted so far in the run
AcceptedPlaces == final_places_list \o place_info_list

\* the (address, name) pair of a page or of a row
PairOf(x) == <<x.address, x.place_name>>

\* the page the browser shows was just skipped as a duplicate
SkippedAsDuplicate ==
    /\ pc \in {"esr_loop", "esr_return"}
    /\ page.header = "place"
    /\ temp_place_info.outcome = "skip"

\* C26: a place is skipped as a duplicate only when a place with the same
\* (address, name) pair was accepted earlier in the run.
C26_SkipsOnlyAcceptedPairs ==
    SkippedAsDuplicate =>
        \E p \in DOMAIN AcceptedPlaces : PairOf(AcceptedPlaces[p]) = PairOf(page)

\* C27: no (address, name) pair is in two rows of the places collected.
C27_NoDuplicateRows ==
    \A p, q \in DOMAIN AcceptedPlaces :
        PairOf(AcceptedPlaces[p]) = PairOf(AcceptedPlaces[q]) => p = q

\* extract_product_info is about to handle the span at position span_i
AtSpan == pc = "epi_span" /\ span_i < Len(span_elements)

\* the step emits a product row
EmitsRow == Len(product_info_list') > Len(product_info_list)

\* C28: a product row is emitted only for a span whose text matches the
\* price pattern; a span whose text does not match it produces no row and
\* no error, in both files.
C28_RowsOnlyForPrices ==
    [][AtSpan =>
         /\ EmitsRow => MatchesPrice(At(span_elements, span_i))
         /\ ~MatchesPrice(At(span_elements, span_i)) =>
                /\ product_info_list' = product_info_list
                /\ pc' # "epi_error"]_vars

\* the row the step emits
EmittedRow == product_info_list'[Len(product_info_list')]

\* C29: the rating, the number of reviews and the calories of an emitted row
\* are read from the spans that follow the span of its own price, also when
\* a product of the same name and another price was recorded before
\* (stated for the rows whose own following spans can be read).
C29_ReadsOwnFollowingSpans ==
    [][(AtSpan /\ EmitsRow) =>
         LET own == ReadFollowing(span_elements, span_i)
         IN  own.error = None =>
                 /\ EmittedRow.rating_percentage = own.rating_percentage
                 /\ EmittedRow.num_reviews = own.num_reviews
                 /\ EmittedRow.calories = own.calories]_vars

\* product_scraper is about to read the stores, without debug_mode
AtStores == pc = "ps_read" /\ ~debug_mode

\* the stores found with a name and a link, after de-duplication
DistinctStores == Smaller(Len(store_names), Len(store_urls))

\* C22: product_scraper launches exactly min(max_stores, number of distinct
\* stores found) tasks, and every task index is within both de-duplicated
\* lists, whatever h3 elements and store links the page shows.
C22_TasksWithinLists ==
    [][AtStores =>
         /\ pc' = "ps_compute"
         /\ Len(tasks') = Smaller(max_stores, DistinctStores')
         /\ \A t \in DOMAIN tasks' :
                t \in DOMAIN store_names' /\ t \in DOMAIN store_urls']_vars

\* a product scraper that held a browser has returned or raised
ProductExited ==
    /\ caller \in {"extract_product_info", "product_scraper"}
    /\ pc \in {"epi_done", "epi_error", "ps_done", "ps_error"}
    /\ browser # Unbound

\* C30: every browser session opened during product scraping is quit on
\* every exit path: none is open once the scraper has returned or raised.
C30_SessionsQuitOnExit == ProductExited => OpenSessions = {}

====
